---- MODULE Spec2Model ----
(***************************************************************************)
(* Content-based movie recommender (src/recsys/base.py).                   *)
(*                                                                         *)
(* The catalog (self.movies) and the similarity table (self.distance) are  *)
(* loaded once; recommendation(title, top_k, genres, actor, country) is a  *)
(* read-only query on them.  Strings whose characters matter (the          *)
(* serialized list-of-records columns, on which the code runs a substring  *)
(* test) are sequences of one-character strings.                           *)
(*                                                                         *)
(* The loaded data is drawn from four bounded families (Loads): every      *)
(* similarity row for each reference item, every assignment of genres with *)
(* cast and of genres with countries, every assignment of titles with      *)
(* every load order, and catalogs of one and two items.  Every call is     *)
(* made with every argument combination on each of them.                   *)
(*                                                                         *)
(* Four more specifications share the variables: SpecSession (a sequence   *)
(* of recommendation, enumeration and accessor calls on one engine),       *)
(* SpecParse (utils.parse applied to a cell of the dataset), SpecPosters   *)
(* (OMDBApi.get_posters against every answer of the service) and SpecPage  *)
(* (the runs of main in app.py with st.session_state and the selection     *)
(* control).  A Python value whose type matters is a record of its type    *)
(* name and its content.                                                   *)
(***************************************************************************)
EXTENDS Integers, Sequences, FiniteSets, TLC

VARIABLES
    movies,      \* self.movies: the catalog rows, in load order
    distance,    \* self.distance: distance[a][b], row a, column b
    call,        \* the last call made and its arguments
    frame,       \* that call's local variables
    result,      \* what that call returned or raised
    history,     \* the recommendation calls of the session, oldest first
    session_state,  \* st.session_state of the page
    selectbox,   \* the movie selection control as last rendered
    omdb,        \* the batch given to get_posters and the service's answers
    column       \* the text parse is applied to

vars == <<movies, distance, call, frame, result, history, session_state,
          selectbox, omdb, column>>

(* ---------------------------- bounds ----------------------------------- *)

\* largest top_k a caller passes
MaxTopK == 2

\* the most negative top_k a caller passes is -MaxNegTopK
MaxNegTopK == 2

\* most records in a serialized list given to parse
MaxNames == 2

\* most titles in a batch given to get_posters
MaxTitles == 2

(* ---------------------------- text ------------------------------------- *)

\* an optional value (a parameter that defaults to None): <<>> is None,
\* <<v>> is the value v
None == <<>>
Some(v) == <<v>>

Comedy == <<"C", "o", "m", "e", "d", "y">>
Action == <<"A", "c", "t", "i", "o", "n">>
Hanks == <<"H", "a", "n", "k", "s">>
Niger == <<"N", "i", "g", "e", "r">>
Nigeria == <<"N", "i", "g", "e", "r", "i", "a">>
\* a cast name written with a space before it
Allen == <<" ", "A", "l", "l", "e", "n">>

\* s in t for two Python strings: s occurs in t as a contiguous run
StrIn(s, t) ==
    \E i \in 1..(Len(t) - Len(s) + 1) : SubSeq(t, i, i + Len(s) - 1) = s

\* x in xs for a Python list
ListIn(x, xs) == \E i \in 1..Len(xs) : xs[i] = x

\* the text that opens a record up to its name value: {'name': '
NameKey == <<"{", "'", "n", "a", "m", "e", "'", ":", " ", "'">>

RECURSIVE SerializeFrom(_, _)
SerializeFrom(names, i) ==
    IF i > Len(names) THEN <<>>
    ELSE (IF i > 1 THEN <<",", " ">> ELSE <<>>)
         \o NameKey \o names[i] \o <<"'", "}">>
         \o SerializeFrom(names, i + 1)

\* a dataset cell: "[{'name': 'Comedy'}, {'name': 'Action'}]"
Serialize(names) == <<"[">> \o SerializeFrom(names, 1) \o <<"]">>

\* position of the first quote of s at or after i (Len(s) + 1 when none)
RECURSIVE QuoteAt(_, _)
QuoteAt(s, i) ==
    IF i > Len(s) THEN Len(s) + 1
    ELSE IF s[i] = "'" THEN i
    ELSE QuoteAt(s, i + 1)

RECURSIVE NamesFrom(_, _)
NamesFrom(s, i) ==
    IF i + Len(NameKey) - 1 > Len(s) THEN <<>>
    ELSE IF SubSeq(s, i, i + Len(NameKey) - 1) = NameKey
         THEN LET b == i + Len(NameKey)
                  e == QuoteAt(s, b)
              IN  <<SubSeq(s, b, e - 1)>> \o NamesFrom(s, e + 1)
         ELSE NamesFrom(s, i + 1)

(* ---------------------------- values ----------------------------------- *)

\* a Python value whose type matters: the name of its type and its content
Str(s) == [type |-> "str", value |-> s]
IntVal(n) == [type |-> "int", value |-> n]
Bool(word) == [type |-> "bool", value |-> word]
List(items) == [type |-> "list", value |-> items]
\* a dict holds its <<key, value>> pairs in the order they were written
Dict(pairs) == [type |-> "dict", value |-> pairs]
PyNone == [type |-> "NoneType", value |-> <<>>]
\* the float pandas puts in an empty cell
NaN == [type |-> "float", value |-> <<"n", "a", "n">>]

\* what a call gives back: the exception it raised, or its value
Return(v) == [raised |-> None, value |-> v]
Raise(exception) == [raised |-> Some(exception), value |-> PyNone]

\* what an action records of a call that returned or raised
Outcome(returned) ==
    [raised |-> returned.raised,
     value |-> IF returned.raised = None THEN Some(returned.value) ELSE None]

\* pd.isnull(value), pd.isna(value)
isnull(value) == value = NaN \/ value = PyNone

\* the truth value of a string or None
TruthyValue(value) ==
    IF value.type = "str" THEN value.value # <<>> ELSE value.type # "NoneType"

\* the characters of the model's texts in code point order
Alphabet ==
    <<" ", "'", ",", "0", "1", "2", "3", "4", "5", "6", "7", "8", "9", ":",
      "A", "B", "C", "D", "E", "F", "G", "H", "I", "J", "K", "L", "M",
      "N", "O", "P", "Q", "R", "S", "T", "U", "V", "W", "X", "Y", "Z",
      "[", "]", "_",
      "a", "b", "c", "d", "e", "f", "g", "h", "i", "j", "k", "l", "m",
      "n", "o", "p", "q", "r", "s", "t", "u", "v", "w", "x", "y", "z",
      "{", "}">>

Ord(c) == CHOOSE i \in 1..Len(Alphabet) : Alphabet[i] = c

\* s < t for two Python strings
StrLess(s, t) ==
    \E k \in 1..(Len(s) + 1) :
        /\ k <= Len(t)
        /\ \A j \in 1..(k - 1) : s[j] = t[j]
        /\ k > Len(s) \/ Ord(s[k]) < Ord(t[k])

\* sorted(list(names)) for a set of strings
RECURSIVE SortedList(_)
SortedList(names) ==
    IF names = {} THEN <<>>
    ELSE LET least == CHOOSE x \in names :
                          \A y \in names \ {x} : StrLess(x, y)
         IN  <<least>> \o SortedList(names \ {least})

\* s.strip() for the space character
RECURSIVE strip(_)
strip(s) ==
    IF s = <<>> THEN s
    ELSE IF s[1] = " " THEN strip(Tail(s))
    ELSE IF s[Len(s)] = " " THEN strip(SubSeq(s, 1, Len(s) - 1))
    ELSE s

(* ---------------------------- ast.literal_eval ------------------------- *)

Digits == {"0", "1", "2", "3", "4", "5", "6", "7", "8", "9"}

LowerCase ==
    {"a", "b", "c", "d", "e", "f", "g", "h", "i", "j", "k", "l", "m",
     "n", "o", "p", "q", "r", "s", "t", "u", "v", "w", "x", "y", "z"}

UpperCase ==
    {"A", "B", "C", "D", "E", "F", "G", "H", "I", "J", "K", "L", "M",
     "N", "O", "P", "Q", "R", "S", "T", "U", "V", "W", "X", "Y", "Z"}

\* the characters of an identifier
IdentChars == LowerCase \cup UpperCase \cup Digits \cup {"_"}

DigitValue(c) ==
    CHOOSE n \in 0..9 :
        <<"0", "1", "2", "3", "4", "5", "6", "7", "8", "9">>[n + 1] = c

\* the number the digits s[i..e-1] write
RECURSIVE DecimalFrom(_, _, _, _)
DecimalFrom(s, i, e, acc) ==
    IF i >= e THEN acc
    ELSE DecimalFrom(s, i + 1, e, acc * 10 + DigitValue(s[i]))

RECURSIVE SkipSpace(_, _)
SkipSpace(s, i) ==
    IF i <= Len(s) /\ s[i] = " " THEN SkipSpace(s, i + 1) ELSE i

\* the first position at or after i whose character is not in chars
RECURSIVE ScanWhile(_, _, _)
ScanWhile(s, i, chars) ==
    IF i <= Len(s) /\ s[i] \in chars THEN ScanWhile(s, i + 1, chars) ELSE i

\* the parser's answer for one expression: err when the text is not Python
\* syntax; otherwise its value, the position after it, and name when it
\* holds a node that is not a literal (an identifier)
SyntaxErr == [err |-> TRUE, name |-> FALSE, value |-> PyNone, next |-> 0]
Node(v, n, nm) == [err |-> FALSE, name |-> nm, value |-> v, next |-> n]

\* expressions of the literal grammar: lists, dicts, single-quoted strings
\* without escapes, decimal integers, identifiers (set displays and other
\* operators are outside it)
RECURSIVE ParseValue(_, _), ParseItems(_, _, _, _), ParsePairs(_, _, _, _)
ParseValue(s, i0) ==
    LET i == SkipSpace(s, i0)
    IN  IF i > Len(s) THEN SyntaxErr
        ELSE IF s[i] = "[" THEN ParseItems(s, i + 1, <<>>, FALSE)
        ELSE IF s[i] = "{" THEN ParsePairs(s, i + 1, <<>>, FALSE)
        ELSE IF s[i] = "'"
             THEN LET e == QuoteAt(s, i + 1)
                  IN  IF e > Len(s) THEN SyntaxErr
                      ELSE Node(Str(SubSeq(s, i + 1, e - 1)), e + 1, FALSE)
        ELSE IF s[i] \in Digits
             THEN LET e == ScanWhile(s, i, Digits)
                  IN  IF s[i] = "0" /\ \E k \in (i + 1)..(e - 1) : s[k] # "0"
                      THEN SyntaxErr
                      ELSE Node(IntVal(DecimalFrom(s, i, e, 0)), e, FALSE)
        ELSE IF s[i] \in IdentChars
             THEN LET e == ScanWhile(s, i, IdentChars)
                      word == SubSeq(s, i, e - 1)
                  IN  IF word = <<"N", "o", "n", "e">>
                      THEN Node(PyNone, e, FALSE)
                      ELSE IF word \in {<<"T", "r", "u", "e">>,
                                        <<"F", "a", "l", "s", "e">>}
                      THEN Node(Bool(word), e, FALSE)
                      ELSE Node(PyNone, e, TRUE)
        ELSE SyntaxErr

\* the items of a list display after its "[" or after a comma
ParseItems(s, i0, acc, nm) ==
    LET i == SkipSpace(s, i0)
    IN  IF i > Len(s) THEN SyntaxErr
        ELSE IF s[i] = "]" THEN Node(List(acc), i + 1, nm)
        ELSE LET v == ParseValue(s, i)
                 j == SkipSpace(s, v.next)
             IN  IF v.err THEN SyntaxErr
                 ELSE IF j > Len(s) THEN SyntaxErr
                 ELSE IF s[j] = ","
                      THEN ParseItems(s, j + 1, Append(acc, v.value),
                                      nm \/ v.name)
                 ELSE IF s[j] = "]"
                      THEN Node(List(Append(acc, v.value)), j + 1,
                                nm \/ v.name)
                 ELSE SyntaxErr

\* the key: value pairs of a dict display after its "{" or after a comma
ParsePairs(s, i0, acc, nm) ==
    LET i == SkipSpace(s, i0)
    IN  IF i > Len(s) THEN SyntaxErr
        ELSE IF s[i] = "}" THEN Node(Dict(acc), i + 1, nm)
        ELSE LET k == ParseValue(s, i)
                 c == SkipSpace(s, k.next)
                 v == ParseValue(s, c + 1)
                 j == SkipSpace(s, v.next)
                 pair == <<k.value, v.value>>
             IN  IF k.err THEN SyntaxErr
                 ELSE IF c > Len(s) \/ s[c] # ":" THEN SyntaxErr
                 ELSE IF v.err THEN SyntaxErr
                 ELSE IF j > Len(s) THEN SyntaxErr
                 ELSE IF s[j] = ","
                      THEN ParsePairs(s, j + 1, Append(acc, pair),
                                      nm \/ k.name \/ v.name)
                 ELSE IF s[j] = "}"
                      THEN Node(Dict(Append(acc, pair)), j + 1,
                                nm \/ k.name \/ v.name)
                 ELSE SyntaxErr

\* ast.literal_eval(node_or_string): text is parsed as one expression and
\* then converted; a value that is not text is a malformed node
literal_eval(node_or_string) ==
    IF node_or_string.type # "str" THEN Raise("ValueError")
    ELSE LET s == node_or_string.value
             r == ParseValue(s, 1)
         IN  IF r.err THEN Raise("SyntaxError")
             ELSE IF SkipSpace(s, r.next) <= Len(s) THEN Raise("SyntaxError")
             ELSE IF r.name THEN Raise("ValueError")
             ELSE Return(r.value)

\* item['name']
ItemName(item) ==
    IF item.type # "dict" THEN Raise("TypeError")
    ELSE LET pairs == item.value
             hits == {k \in 1..Len(pairs) : pairs[k][1] = Str(<<"n", "a", "m", "e">>)}
         IN  IF hits = {} THEN Raise("KeyError")
             ELSE Return(pairs[CHOOSE k \in hits : \A h \in hits : h <= k][2])

\* what `for item in parsed_list` iterates over: the items of a list, the
\* keys of a dict, the characters of a string
Iterable(parsed_list) ==
    parsed_list.type \in {"list", "dict", "str"}

Items(parsed_list) ==
    IF parsed_list.type = "list" THEN parsed_list.value
    ELSE IF parsed_list.type = "dict"
         THEN [k \in 1..Len(parsed_list.value) |-> parsed_list.value[k][1]]
    ELSE [k \in 1..Len(parsed_list.value) |-> Str(<<parsed_list.value[k]>>)]

\* [item['name'] for item in items[i..]]: the first item that cannot be
\* subscripted ends the comprehension with its exception
RECURSIVE NamesOf(_, _)
NamesOf(items, i) ==
    IF i > Len(items) THEN Return(<<>>)
    ELSE LET name == ItemName(items[i])
             rest == NamesOf(items, i + 1)
         IN  IF name.raised # None THEN name
             ELSE IF rest.raised # None THEN rest
             ELSE Return(<<name.value.value>> \o rest.value)

\* parse(parsed_column): only ValueError and SyntaxError are caught
parse(parsed_column) ==
    IF parsed_column = PyNone THEN Return(<<>>)
    ELSE LET parsed_list == literal_eval(parsed_column)
         IN  IF parsed_list.raised # None
             THEN Return(<<>>)
             ELSE IF ~Iterable(parsed_list.value) THEN Raise("TypeError")
             ELSE NamesOf(Items(parsed_list.value), 1)

\* [person['name'] for person in eval(cell)]
EvalNames(cell) == NamesFrom(cell, 1)

(* ---------------------------- the catalog ------------------------------ *)

\* self.movies.loc[index]
Loc(index) == movies[CHOOSE i \in 1..Len(movies) : movies[i].id = index]

\* the index labels of a sequence of rows (the list the loops over
\* self.movies.iterrows() build with filtered_movies.append(index))
IndexOf(rows) == [i \in 1..Len(rows) |-> rows[i].id]

\* a test for None only, where the code tests the truth value
IsNotNone(x) == x # None

\* the truth value Python gives an optional set argument: None and the
\* empty collection are both false
Truthy(x) == x # None /\ x[1] # {}

\* the truth value of an optional list
TruthyList(x) == x # None /\ x[1] # <<>>

(* ---------------------------- the filters ------------------------------ *)

\* any(genre in row['genres'] for genre in genres)
AnyGenre(row, genres) == \E genre \in genres : ListIn(genre, row.genres)

\* any(person['name'] in actor for person in eval(row['cast']))
AnyActor(row, actor) ==
    LET cast == EvalNames(row.cast)
    IN  \E p \in 1..Len(cast) : cast[p] \in actor

\* any(country_i in row['production_countries'] for country_i in country):
\* the column holds the serialized text, so `in` is a substring test
AnyCountry(row, country) ==
    \E country_i \in country : StrIn(country_i, row.production_countries)

filter_movies_by_genre(genres) ==
    IndexOf(SelectSeq(movies, LAMBDA row : AnyGenre(row, genres)))

filter_movies_by_actor(actor) ==
    IndexOf(SelectSeq(movies, LAMBDA row : AnyActor(row, actor)))

filter_movies_by_genre_and_actor(genres, actor) ==
    IndexOf(SelectSeq(movies, LAMBDA row : AnyGenre(row, genres) \/ AnyActor(row, actor)))

filter_movies_by_country(country) ==
    IndexOf(SelectSeq(movies, LAMBDA row : AnyCountry(row, country)))

filter_movies_by_genre_and_country(genres, country) ==
    IndexOf(SelectSeq(movies, LAMBDA row : AnyGenre(row, genres) \/ AnyCountry(row, country)))

(* ---------------------------- ranking ---------------------------------- *)

\* distances.index.isin(keep) applied as a mask: the entries of distances
\* that are in the list keep, in the order of distances
IsIn(distances, keep) == SelectSeq(distances, LAMBDA index : ListIn(index, keep))

\* s[start:stop] of Python for start >= 0
PySlice(s, start, stop) ==
    LET n == Len(s)
        e == IF stop < 0 THEN (IF n + stop < 0 THEN 0 ELSE n + stop)
             ELSE (IF stop > n THEN n ELSE stop)
    IN  SubSeq(s, start + 1, e)

\* r orders the identifiers from the lowest score of row to the highest
Ascending(row, r) ==
    \A i \in 1..(Len(r) - 1) : row[r[i]] <= row[r[i + 1]]

\* r orders the identifiers from the highest score of row to the lowest
Descending(row, r) ==
    \A i \in 1..(Len(r) - 1) : row[r[i]] >= row[r[i + 1]]

\* the outcomes of self.distance.loc[movie_index].sort_values(ascending=False)
\* .index: every column once, scores descending.  The default sort is not
\* stable, so equal scores may come out in any order.
SortValues(row) ==
    LET cols == DOMAIN row
        n == Cardinality(cols)
    IN  { r \in [1..n -> cols] :
            /\ \A c \in cols : \E i \in 1..n : r[i] = c
            /\ Descending(row, r) }

\* get_top_k_movies that trusts the pre-filter and does not apply the
\* filters again
get_top_k_movies_prefilter_only(sorted, top_k, filtered_movies, genres, actor, country) ==
    LET d0 == IF TruthyList(filtered_movies)
              THEN IsIn(sorted, filtered_movies[1]) ELSE sorted
    IN  PySlice(d0, 1, top_k + 1)

\* get_top_k_movies without the check of the cast (lines 134-137)
get_top_k_movies_no_actor(sorted, top_k, filtered_movies, genres, actor, country) ==
    LET d0 == IF TruthyList(filtered_movies)
              THEN IsIn(sorted, filtered_movies[1]) ELSE sorted
        d1 == IF Truthy(genres)
              THEN SelectSeq(d0, LAMBDA index : AnyGenre(Loc(index), genres[1]))
              ELSE d0
        d3 == IF Truthy(country)
              THEN SelectSeq(d1, LAMBDA index : AnyCountry(Loc(index), country[1]))
              ELSE d1
    IN  PySlice(d3, 1, top_k + 1)

\* get_top_k_movies without the check of the countries (lines 138-142)
get_top_k_movies_no_country(sorted, top_k, filtered_movies, genres, actor, country) ==
    LET d0 == IF TruthyList(filtered_movies)
              THEN IsIn(sorted, filtered_movies[1]) ELSE sorted
        d1 == IF Truthy(genres)
              THEN SelectSeq(d0, LAMBDA index : AnyGenre(Loc(index), genres[1]))
              ELSE d0
        d2 == IF Truthy(actor)
              THEN SelectSeq(d1, LAMBDA index : AnyActor(Loc(index), actor[1]))
              ELSE d1
    IN  PySlice(d2, 1, top_k + 1)

\* get_top_k_movies after its first line; sorted is the index of the sorted
\* row of movie_index
get_top_k_movies(sorted, top_k, filtered_movies, genres, actor, country) ==
    LET d0 == IF TruthyList(filtered_movies)
              THEN IsIn(sorted, filtered_movies[1]) ELSE sorted
        d1 == IF Truthy(genres)
              THEN SelectSeq(d0, LAMBDA index : AnyGenre(Loc(index), genres[1]))
              ELSE d0
        d2 == IF Truthy(actor)
              THEN SelectSeq(d1, LAMBDA index : AnyActor(Loc(index), actor[1]))
              ELSE d1
        d3 == IF Truthy(country)
              THEN SelectSeq(d2, LAMBDA index : AnyCountry(Loc(index), country[1]))
              ELSE d2
    IN  PySlice(d3, 1, top_k + 1)

\* the conditional expression that picks the pre-filter
FilteredMovies(genres, actor, country) ==
    IF Truthy(genres) /\ Truthy(country)
        THEN Some(filter_movies_by_genre_and_country(genres[1], country[1]))
    ELSE IF Truthy(genres) /\ Truthy(actor)
        THEN Some(filter_movies_by_genre_and_actor(genres[1], actor[1]))
    ELSE IF Truthy(genres) THEN Some(filter_movies_by_genre(genres[1]))
    ELSE IF Truthy(actor) THEN Some(filter_movies_by_actor(actor[1]))
    ELSE IF Truthy(country) THEN Some(filter_movies_by_country(country[1]))
    ELSE None

\* self.movies[self.movies['title'] == title].index
TitleIndex(title) == IndexOf(SelectSeq(movies, LAMBDA row : row.title = title))

\* .index[-1] of a non-empty index
Last(index) == index[Len(index)]

\* .index[0] of a non-empty index
First(index) == index[1]

\* self.movies.loc[indices, 'title'].tolist()
Titles(indices) == [i \in 1..Len(indices) |-> Loc(indices[i]).title]

\* top_movies_indices of recommendation, given the sorted row
TopMoviesIndices(sorted, top_k, genres, actor, country) ==
    get_top_k_movies(sorted, top_k, FilteredMovies(genres, actor, country),
                     genres, actor, country)

(* ---------------------------- loaded data ------------------------------ *)

\* a row of the dataset after _init_movies: genres is parsed at load
\* (line 49), cast and production_countries stay serialized text
Movie(id, title, genres, cast, countries) ==
    [id |-> id, title |-> title,
     genres |-> parse(Str(Serialize(genres))).value,
     cast |-> Serialize(cast),
     production_countries |-> Serialize(countries),
     homepage |-> NaN,
     original_title |-> Str(<<title>>),
     overview |-> NaN]

ItemIds == {1, 2, 3}
TitleNames == {"A", "B", "C"}
\* scores in tenths: 0.2, 0.8, 1.0
ScoreLevels == {2, 8, 10}
GenreLists == {<<Comedy>>, <<Action>>}
CastLists == {<<>>, <<Hanks>>}
CountryLists == {<<>>, <<Niger>>, <<Nigeria>>}

\* the catalog A(id=1, Comedy), B(id=2, Action), C(id=3, Comedy)
BaseMovies ==
    << Movie(1, "A", <<Comedy>>, <<Hanks>>, <<Niger>>),
       Movie(2, "B", <<Action>>, <<>>, <<Nigeria>>),
       Movie(3, "C", <<Comedy>>, <<Hanks>>, <<>>) >>

\* a similarity table whose row of A is {1: 1.0, 2: 0.2, 3: 0.8}; the
\* values are not symmetric
BaseDistance ==
    [a \in ItemIds |->
        IF a = 1 THEN [b \in ItemIds |-> IF b = 1 THEN 10 ELSE IF b = 2 THEN 2 ELSE 8]
        ELSE IF a = 2 THEN [b \in ItemIds |-> IF b = 2 THEN 10 ELSE IF b = 1 THEN 2 ELSE 8]
        ELSE [b \in ItemIds |-> IF b = 3 THEN 10 ELSE IF b = 1 THEN 2 ELSE 8]]

\* the orders in which the dataset file can list the rows
LoadOrders ==
    { o \in [1..Cardinality(ItemIds) -> ItemIds] :
        \A a \in ItemIds : \E i \in DOMAIN o : o[i] = a }

\* every table that differs from BaseDistance in one row, with BaseMovies
RankLoads ==
    { <<BaseMovies, [BaseDistance EXCEPT ![a] = row]>> :
        a \in ItemIds, row \in [ItemIds -> ScoreLevels] }

\* the attribute lists of BaseMovies
BaseGenres == <<<<Comedy>>, <<Action>>, <<Comedy>>>>
BaseCast == <<<<Hanks>>, <<>>, <<Hanks>>>>
BaseCountries == <<<<Niger>>, <<Nigeria>>, <<>>>>

\* the catalog with the given genres, cast and countries per item
MoviesWith(g, c, p) ==
    [i \in 1..3 |-> Movie(i, BaseMovies[i].title, g[i], c[i], p[i])]

\* every assignment of genres and cast, and of genres and countries, to the
\* three items
AttrLoads ==
    { <<MoviesWith(g, c, BaseCountries), BaseDistance>> :
        g \in [1..3 -> GenreLists], c \in [1..3 -> CastLists] }
    \cup
    { <<MoviesWith(g, BaseCast, p), BaseDistance>> :
        g \in [1..3 -> GenreLists], p \in [1..3 -> CountryLists] }

\* every assignment of two titles to the three items (titles are not
\* unique) and every load order
TitleLoads ==
    { << [i \in 1..3 |-> [BaseMovies[o[i]] EXCEPT !.title = t[o[i]]]],
         BaseDistance >> :
        o \in LoadOrders, t \in [ItemIds -> {"A", "B"}] }

\* catalogs of one and of two items
SmallLoads ==
    { << SubSeq(BaseMovies, 1, n),
         [a \in 1..n |-> [b \in 1..n |-> BaseDistance[a][b]]] >> :
        n \in 1..2 }

Loads == RankLoads \cup AttrLoads \cup TitleLoads \cup SmallLoads

\* the arguments callers pass
TitleArgs == TitleNames \cup {"Z"}
TopKArgs == (0 - MaxNegTopK)..MaxTopK
GenreArgs == {None, Some({}), Some({Comedy}), Some({Action})}
ActorArgs == {None, Some({}), Some({Hanks})}
CountryArgs == {None, Some({}), Some({Niger})}

NoCall ==
    [op |-> "none", title |-> "", top_k |-> 0,
     genres |-> None, actor |-> None, country |-> None]

NoFrame == [movie_index |-> None, sorted |-> None, top_movies_indices |-> None]

NoResult == [raised |-> None, value |-> None]

\* no recommendation call was made yet
NoHistory == <<>>

\* st.session_state as the script's entry point sets it
NoSession == [first_load |-> TRUE, last_index |-> None, translate |-> FALSE]

\* the selection control before the page was rendered
NoSelectbox == [index |-> None, value |-> None]

\* no batch of titles was looked up
NoBatch == [titles |-> <<>>, responses |-> <<>>]

Init ==
    /\ \E load \in Loads :
        /\ movies = load[1]
        /\ distance = load[2]
    /\ call = NoCall
    /\ frame = NoFrame
    /\ result = NoResult
    /\ history = NoHistory
    /\ session_state = NoSession
    /\ selectbox = NoSelectbox
    /\ omdb = NoBatch
    /\ column = PyNone

(* ---------------------------- operations ------------------------------- *)

\* recommendation(title, top_k, genres, actor, country)
recommendation(title, top_k, genres, actor, country) ==
    /\ call' = [op |-> "recommendation", title |-> title, top_k |-> top_k,
                 genres |-> genres, actor |-> actor, country |-> country]
    /\ IF TitleIndex(title) = <<>>
       THEN \* .index[0] of an empty index raises IndexError
            /\ frame' = NoFrame
            /\ result' = [raised |-> Some("IndexError"), value |-> None]
       ELSE LET movie_index == First(TitleIndex(title))
            IN  \E sorted \in SortValues(distance[movie_index]) :
                    LET top_movies_indices ==
                            TopMoviesIndices(sorted, top_k, genres, actor, country)
                    IN  /\ frame' = [movie_index |-> Some(movie_index),
                                      sorted |-> Some(sorted),
                                      top_movies_indices |-> Some(top_movies_indices)]
                        /\ result' = [raised |-> None,
                                       value |-> Some(Titles(top_movies_indices))]
    /\ UNCHANGED <<movies, distance>>

\* a script run that has not called recommendation yet calls it (app.py
\* calls it once per run)
Recommend ==
    /\ call.op = "none"
    /\ \E title \in TitleArgs, top_k \in TopKArgs, genres \in GenreArgs,
          actor \in ActorArgs, country \in CountryArgs :
            recommendation(title, top_k, genres, actor, country)
    /\ UNCHANGED <<history, session_state, selectbox, omdb, column>>

\* the script run ends and the page is run again from the top: the locals of
\* the last run are gone, the loaded data stays (it is cached)
Rerun ==
    /\ call.op # "none"
    /\ call' = NoCall
    /\ frame' = NoFrame
    /\ result' = NoResult
    /\ UNCHANGED <<movies, distance, history, session_state, selectbox, omdb,
                   column>>

Next == Recommend \/ Rerun

Spec == Init /\ [][Next]_vars

(* ---------------------------- a session --------------------------------- *)

\* get_title(): the title column
get_title == [i \in 1..Len(movies) |-> movies[i].title]

\* get_genres(): the set of the items of every genres list
get_genres ==
    UNION { {movies[i].genres[k] : k \in 1..Len(movies[i].genres)} :
              i \in 1..Len(movies) }

\* get_country(): the set of the names of every evaluated cell
get_country ==
    UNION { {EvalNames(movies[i].production_countries)[k] :
                k \in 1..Len(EvalNames(movies[i].production_countries))} :
              i \in 1..Len(movies) }

\* ContentBaseRecSys.get_all_actors(): the stripped names, sorted
all_actors ==
    SortedList(UNION { {strip(EvalNames(movies[i].cast)[k]) :
                           k \in 1..Len(EvalNames(movies[i].cast))} :
                         i \in 1..Len(movies) })

\* get_all_actors(_recsys) of the page: the list with "" put in front
get_all_actors == <<<<>>>> \o all_actors

\* the rows self.movies[self.movies['title'] == movie_title]
TitleData(movie_title) ==
    SelectSeq(movies, LAMBDA row : row.title = movie_title)

\* get_movie_url(movie_title): values[0] of no row raises IndexError
get_movie_url(movie_title) ==
    LET movie_data == TitleData(movie_title)
    IN  IF movie_data = <<>> THEN Raise("IndexError")
        ELSE LET movie_homepage ==
                     IF ~isnull(movie_data[1].homepage)
                     THEN movie_data[1].homepage ELSE PyNone
             IN  IF TruthyValue(movie_homepage)
                 THEN Return(movie_homepage)
                 ELSE Return(Str(<<>>))

\* get_original_title(movie_title): IndexError is caught
get_original_title(movie_title) ==
    LET movie_data == TitleData(movie_title)
    IN  IF movie_data = <<>> THEN Return(Str(<<>>))
        ELSE Return(movie_data[1].original_title)

\* get_overview(movie_title): IndexError is caught
get_overview(movie_title) ==
    LET movie_data == TitleData(movie_title)
    IN  IF movie_data = <<>> THEN Return(Str(<<>>))
        ELSE IF ~isnull(movie_data[1].overview)
             THEN Return(movie_data[1].overview)
             ELSE Return(PyNone)

\* what the cells of the homepage, original_title and overview columns hold
Homepages == {NaN, Str(<<>>), Str(<<"h">>)}
OriginalTitles == {NaN, Str(<<"o">>)}
Overviews == {NaN, Str(<<>>), Str(<<"s">>)}

\* BaseMovies with a second cast name for B
SessionMovies ==
    [BaseMovies EXCEPT ![2].cast = Serialize(<<Hanks, Allen>>)]

\* a similarity table whose row of A scores B and C equally
TieDistance == [BaseDistance EXCEPT ![1] = [b \in ItemIds |-> IF b = 1 THEN 10 ELSE 8]]

\* the catalogs of a session: every content of A's three cells, and a
\* table with a tie
SessionLoads ==
    { << [SessionMovies EXCEPT ![1].homepage = h, ![1].original_title = o,
                                ![1].overview = v], BaseDistance >> :
        h \in Homepages, o \in OriginalTitles, v \in Overviews }
    \cup { <<SessionMovies, TieDistance>> }

\* the arguments of a session's calls
SessionTitles == {"A", "B", "Z"}
SessionGenres == {None, Some({Comedy})}

InitSession ==
    /\ \E load \in SessionLoads :
        /\ movies = load[1]
        /\ distance = load[2]
    /\ call = NoCall
    /\ frame = NoFrame
    /\ result = NoResult
    /\ history = NoHistory
    /\ session_state = NoSession
    /\ selectbox = NoSelectbox
    /\ omdb = NoBatch
    /\ column = PyNone

\* the last two recommendation calls: what was asked, the order the sort
\* gave, what came back, and whether another method ran since the call
\* before
Logged(entry) ==
    IF history = <<>> THEN <<entry>>
    ELSE <<[history[Len(history)] EXCEPT !.between = FALSE], entry>>

SessionRecommend ==
    /\ \E title \in SessionTitles, genres \in SessionGenres :
            recommendation(title, MaxTopK, genres, None, None)
    /\ history' = Logged([call |-> call', sorted |-> frame'.sorted,
                          result |-> result',
                          between |-> call.op \notin {"none", "recommendation"}])
    /\ UNCHANGED <<session_state, selectbox, omdb, column>>

GetTitle ==
    /\ call' = [NoCall EXCEPT !.op = "get_title"]
    /\ frame' = NoFrame
    /\ result' = Outcome(Return(get_title))
    /\ UNCHANGED <<movies, distance, history, session_state, selectbox, omdb,
                   column>>

\* get_genres that takes the items out of the genres lists as it reads them
GetGenresDraining ==
    /\ call' = [NoCall EXCEPT !.op = "get_genres"]
    /\ frame' = NoFrame
    /\ result' = Outcome(Return(get_genres))
    /\ movies' = [i \in 1..Len(movies) |-> [movies[i] EXCEPT !.genres = <<>>]]
    /\ UNCHANGED <<distance, history, session_state, selectbox, omdb, column>>

GetGenres ==
    /\ call' = [NoCall EXCEPT !.op = "get_genres"]
    /\ frame' = NoFrame
    /\ result' = Outcome(Return(get_genres))
    /\ UNCHANGED <<movies, distance, history, session_state, selectbox, omdb,
                   column>>

GetCountry ==
    /\ call' = [NoCall EXCEPT !.op = "get_country"]
    /\ frame' = NoFrame
    /\ result' = Outcome(Return(get_country))
    /\ UNCHANGED <<movies, distance, history, session_state, selectbox, omdb,
                   column>>

GetAllActors ==
    /\ call' = [NoCall EXCEPT !.op = "get_all_actors"]
    /\ frame' = NoFrame
    /\ result' = Outcome(Return(get_all_actors))
    /\ UNCHANGED <<movies, distance, history, session_state, selectbox, omdb,
                   column>>

GetMovieUrl ==
    /\ \E movie_title \in SessionTitles :
        /\ call' = [NoCall EXCEPT !.op = "get_movie_url", !.title = movie_title]
        /\ result' = Outcome(get_movie_url(movie_title))
    /\ frame' = NoFrame
    /\ UNCHANGED <<movies, distance, history, session_state, selectbox, omdb,
                   column>>

GetOriginalTitle ==
    /\ \E movie_title \in SessionTitles :
        /\ call' = [NoCall EXCEPT !.op = "get_original_title",
                                   !.title = movie_title]
        /\ result' = Outcome(get_original_title(movie_title))
    /\ frame' = NoFrame
    /\ UNCHANGED <<movies, distance, history, session_state, selectbox, omdb,
                   column>>

GetOverview ==
    /\ \E movie_title \in SessionTitles :
        /\ call' = [NoCall EXCEPT !.op = "get_overview", !.title = movie_title]
        /\ result' = Outcome(get_overview(movie_title))
    /\ frame' = NoFrame
    /\ UNCHANGED <<movies, distance, history, session_state, selectbox, omdb,
                   column>>

NextSession ==
    \/ SessionRecommend
    \/ GetTitle
    \/ GetGenres
    \/ GetCountry
    \/ GetAllActors
    \/ GetMovieUrl
    \/ GetOriginalTitle
    \/ GetOverview

SpecSession == InitSession /\ [][NextSession]_vars

(* ---------------------------- posters ----------------------------------- *)

\* the status code of a successful answer
StatusOk == 200

\* status codes of answers that are not successful
ErrorStatuses == {401, 404}

\* the image shown for a title without a poster
Placeholder == <<"l", "o", "a", "d", "i", "n", "g", ".", "g", "i", "f">>

\* the poster URL the service holds for a title
PosterUrl(title) == <<"p", "/", title>>

\* what requests.get(self.url, params) can do for one title: raise, or
\* give a response with a status code and a body that is JSON or not, with
\* a Poster entry (a URL or the empty string) or without
Answers(title) ==
    { [raised |-> None, status_code |-> status,
        decodes |-> FALSE, Poster |-> None] : status \in ErrorStatuses }
    \cup
    { [raised |-> Some("ConnectionError"), status_code |-> 0,
       decodes |-> FALSE, Poster |-> None],
      [raised |-> None, status_code |-> StatusOk,
       decodes |-> FALSE, Poster |-> None],
      [raised |-> None, status_code |-> StatusOk,
       decodes |-> TRUE, Poster |-> None],
      [raised |-> None, status_code |-> StatusOk,
       decodes |-> TRUE, Poster |-> Some(<<>>)],
      [raised |-> None, status_code |-> StatusOk,
       decodes |-> TRUE, Poster |-> Some(PosterUrl(title))] }

\* _get_image_path(title), given what requests.get does: neither the
\* exception of requests.get nor the one of response.json() is caught
get_image_path(response) ==
    IF response.raised # None THEN Raise(response.raised[1])
    ELSE IF response.status_code = StatusOk
         THEN IF ~response.decodes THEN Raise("JSONDecodeError")
              ELSE IF response.Poster # None
                   THEN Return(Str(response.Poster[1]))
                   ELSE Return(PyNone)
    ELSE Return(PyNone)

\* the loop of get_posters from the i-th title on
RECURSIVE PostersFrom(_, _, _)
PostersFrom(responses, i, posters) ==
    IF i > Len(responses) THEN Return(posters)
    ELSE LET path == get_image_path(responses[i])
         IN  IF path.raised # None THEN path
             ELSE IF TruthyValue(path.value)
                  THEN PostersFrom(responses, i + 1,
                                   Append(posters, path.value.value))
                  ELSE PostersFrom(responses, i + 1,
                                   Append(posters, Placeholder))

\* get_posters(titles), given what requests.get does for each title
get_posters(responses) == PostersFrom(responses, 1, <<>>)

\* the batches: every list of at most MaxTitles titles
RECURSIVE Batches(_)
Batches(n) ==
    IF n = 0 THEN {<<>>}
    ELSE Batches(n - 1)
         \cup { Append(b, t) : b \in {c \in Batches(n - 1) : Len(c) = n - 1},
                               t \in {"A", "B"} }

\* every batch with every answer of the service for each of its titles
Lookups ==
    UNION { { [titles |-> titles, responses |-> responses] :
                responses \in { r \in [1..Len(titles) -> UNION {Answers(t) : t \in {"A", "B"}}] :
                                  \A i \in 1..Len(titles) : r[i] \in Answers(titles[i]) } } :
            titles \in Batches(MaxTitles) }

InitPosters ==
    /\ movies = BaseMovies
    /\ distance = BaseDistance
    /\ call = NoCall
    /\ frame = NoFrame
    /\ result = NoResult
    /\ history = NoHistory
    /\ session_state = NoSession
    /\ selectbox = NoSelectbox
    /\ omdb \in Lookups
    /\ column = PyNone

GetPosters ==
    /\ call.op = "none"
    /\ call' = [NoCall EXCEPT !.op = "get_posters"]
    /\ result' = Outcome(get_posters(omdb.responses))
    /\ UNCHANGED <<movies, distance, frame, history, session_state, selectbox,
                   omdb, column>>

NextPosters == GetPosters

SpecPosters == InitPosters /\ [][NextPosters]_vars

(* ---------------------------- the page ---------------------------------- *)

\* the largest index main draws for the first render: random.randint(0, 4791)
RandomIndexMax == 4791

\* top_k of main
PageTopK == 7

\* the catalogs behind the page
PageLoads == TitleLoads \cup SmallLoads

\* what the genre multiselect can hold (nothing selected is the empty list)
PageGenres == {{}, {Comedy}}

InitPage ==
    /\ \E load \in PageLoads :
        /\ movies = load[1]
        /\ distance = load[2]
    /\ call = NoCall
    /\ frame = NoFrame
    /\ result = NoResult
    /\ history = NoHistory
    /\ session_state = NoSession
    /\ selectbox = NoSelectbox
    /\ omdb = NoBatch
    /\ column = PyNone

\* one run of main.  picked is the option the user chose in the selection
\* control to cause this run (None when the run has another cause);
\* selected_genre and checkbox are what the multiselect and the checkbox hold.
\* The control has no key: it is the same widget as long as it is rendered
\* with the same index, and then it keeps the value the user gave it.
main(picked, selected_genre, checkbox) ==
    IF session_state.first_load
    THEN \E random_index \in 0..RandomIndexMax :
            IF random_index >= Len(movies)
            THEN \* st.selectbox raises for an index outside the options
                 /\ call' = [NoCall EXCEPT !.op = "selectbox"]
                 /\ frame' = NoFrame
                 /\ result' = Outcome(Raise("StreamlitAPIException"))
                 /\ UNCHANGED <<movies, distance, session_state, selectbox>>
            ELSE /\ selectbox' = [index |-> Some(random_index),
                                  value |-> Some(random_index)]
                 /\ session_state' = [first_load |-> FALSE,
                                      last_index |-> Some(random_index),
                                      translate |-> checkbox]
                 /\ recommendation(get_title[random_index + 1], PageTopK,
                                   Some(selected_genre), Some({}), Some({}))
    ELSE LET value == IF picked # None THEN picked[1] ELSE selectbox.value[1]
         IN  /\ selectbox' = [index |-> session_state.last_index,
                              value |-> Some(value)]
             /\ session_state' = [session_state EXCEPT !.translate = checkbox]
             /\ recommendation(get_title[value + 1], PageTopK,
                               Some(selected_genre), Some({}), Some({}))

\* the page is opened (or opened again after a run that raised): every
\* widget holds its default
OpenPage ==
    /\ session_state.first_load
    /\ main(None, {}, TRUE)
    /\ UNCHANGED <<history, omdb, column>>

\* the user chooses a movie in the selection control
SelectMovie ==
    /\ ~session_state.first_load
    /\ \E picked \in 0..(Len(movies) - 1) :
            main(Some(picked), call.genres[1], session_state.translate)
    /\ UNCHANGED <<history, omdb, column>>

\* the user changes the genre multiselect
SelectGenre ==
    /\ ~session_state.first_load
    /\ \E selected_genre \in PageGenres \ {call.genres[1]} :
            main(None, selected_genre, session_state.translate)
    /\ UNCHANGED <<history, omdb, column>>

\* the user ticks or unticks the translation checkbox
ToggleTranslate ==
    /\ ~session_state.first_load
    /\ main(None, call.genres[1], ~session_state.translate)
    /\ UNCHANGED <<history, omdb, column>>

NextPage == OpenPage \/ SelectMovie \/ SelectGenre \/ ToggleTranslate

SpecPage == InitPage /\ [][NextPage]_vars

(* ---------------------------- parsing a cell --------------------------- *)

\* every list of at most MaxNames names
RECURSIVE ListsUpTo(_, _)
ListsUpTo(names, n) ==
    IF n = 0 THEN {<<>>}
    ELSE ListsUpTo(names, n - 1)
         \cup { Append(l, x) : l \in {m \in ListsUpTo(names, n - 1) : Len(m) = n - 1},
                               x \in names }

NameLists == ListsUpTo({Comedy, Action}, MaxNames)

\* cells as the dataset writes them
RecordTexts == { Serialize(names) : names \in NameLists }

\* the text that opens a record with an id: {'id': 1
IdKey == <<"{", "'", "i", "d", "'", ":", " ", "1">>

\* "[{'id': 1, 'name': 'Comedy'}]"
RecordWithId(name) ==
    <<"[">> \o IdKey \o <<",", " ">> \o Tail(NameKey) \o name \o <<"'", "}", "]">>

IdRecordTexts == { RecordWithId(name) : name \in {Comedy, Action} }

\* records without a name: "[{'id': 1}]", "[{'name': 'Comedy'}, {'id': 1}]"
NoNameTexts ==
    { <<"[">> \o IdKey \o <<"}", "]">>,
      <<"[">> \o NameKey \o Comedy \o <<"'", "}", ",", " ">> \o IdKey \o <<"}", "]">> }

\* literals that are not lists of records: 5, 'a', '', {}, [], [1], ['a'],
\* [[]], [None], {'name': 'Comedy'}
OtherLiteralTexts ==
    { <<"5">>, <<"'", "a", "'">>, <<"'", "'">>, <<"{", "}">>,
      <<"[", "1", "]">>, <<"[", "'", "a", "'", "]">>, <<"[", "[", "]", "]">>,
      <<"[", "N", "o", "n", "e", "]">>,
      NameKey \o Comedy \o <<"'", "}">> }

\* text that is not a literal: every cell cut short, and nan, [nan], [1 2]
UnparsableTexts ==
    { SubSeq(Serialize(<<Comedy, Action>>), 1, n) :
        n \in 0..(Len(Serialize(<<Comedy, Action>>)) - 1) }
    \cup { <<"n", "a", "n">>, <<"[", "n", "a", "n", "]">>,
           <<"[", "1", " ", "2", "]">> }

\* what a genres cell can hold when parse is applied to it
ParseInputs ==
    {PyNone, NaN}
    \cup { Str(text) : text \in RecordTexts \cup IdRecordTexts \cup NoNameTexts
                             \cup OtherLiteralTexts \cup UnparsableTexts }

InitParse ==
    /\ movies = BaseMovies
    /\ distance = BaseDistance
    /\ call = NoCall
    /\ frame = NoFrame
    /\ result = NoResult
    /\ history = NoHistory
    /\ session_state = NoSession
    /\ selectbox = NoSelectbox
    /\ omdb = NoBatch
    /\ column \in ParseInputs

\* self.movies['genres'].apply(parse) reaches the cell: an exception parse
\* raises leaves _init_movies and the constructor
ApplyParse ==
    /\ call.op = "none"
    /\ call' = [NoCall EXCEPT !.op = "parse"]
    /\ result' = Outcome(parse(column))
    /\ UNCHANGED <<movies, distance, frame, history, session_state, selectbox,
                   omdb, column>>

NextParse == ApplyParse

SpecParse == InitParse /\ [][NextParse]_vars

(* ---------------------------- properties ------------------------------- *)

\* recommendation was called
Called == call.op = "recommendation"

\* recommendation was called and returned a list
Returned == Called /\ result.raised = None /\ result.value # None

\* the locals of a call that returned
RefId == frame.movie_index[1]
Sorted == frame.sorted[1]
Top == frame.top_movies_indices[1]

\* an argument that is None or an empty collection
Absent(x) == x = None \/ x = Some({})

\* the rows whose title is the title asked for
TitleRows == {i \in 1..Len(movies) : movies[i].title = call.title}

Min(a, b) == IF a < b THEN a ELSE b

\* the similarity order restricted to the candidate list the precedence rule
\* selects (every identifier when no filter is supplied), reference removed
Candidates ==
    LET pre == FilteredMovies(call.genres, call.actor, call.country)
        kept == IF pre = None THEN Sorted ELSE IsIn(Sorted, pre[1])
    IN  SelectSeq(kept, LAMBDA index : index # RefId)

\* C1: for every catalog item X, the list recommendation(X.title, ...)
\* returns never contains X itself (X being the item the title resolves to).
C1_NeverRecommendsItself ==
    Returned => ~ListIn(RefId, Top)

\* C2: recommendation(title, k, filters) returns the titles of the first k
\* identifiers of the descending-similarity ranking restricted to the
\* candidate set with the reference identifier removed.
C2_FirstKOfCandidates ==
    (Returned /\ call.top_k >= 0) =>
        result.value[1] =
            Titles(SubSeq(Candidates, 1, Min(call.top_k, Len(Candidates))))

\* C3: for k >= 0 the length of the result is min(k, number of eligible
\* candidates), the eligible candidates being the identifiers other than the
\* reference that survive the filters.
C3_LengthIsMin ==
    (Returned /\ call.top_k >= 0) =>
        Len(result.value[1]) = Min(call.top_k, Len(Candidates))

\* the score of a returned identifier against the reference
Score(index) == distance[RefId][index]

C5_NonPositiveTopKEmpty ==
    (Called /\ TitleRows # {} /\ call.top_k <= 0) =>
        /\ result.raised = None
        /\ result.value = Some(<<>>)

\* C6: a title that matches no item fails with an error and returns no list;
\* a title that matches several items resolves to the first of them in load
\* order.
C6_ResolveFirstOrFail ==
    Called =>
        IF TitleRows = {}
        THEN result.raised # None /\ result.value = None
        ELSE /\ result.raised = None
             /\ \E i \in TitleRows :
                    /\ \A j \in TitleRows : i <= j
                    /\ frame.movie_index = Some(movies[i].id)

\* the title matches two rows and the first in load order is not the one
\* with the smallest identifier
C6_Witness ==
    /\ Returned
    /\ call.top_k >= 1
    /\ Cardinality(TitleRows) >= 2
    /\ \E i \in TitleRows : movies[i].id < RefId

\* what line 143 returns when kept is what the filters leave of the sorted row
SliceOf(kept) == PySlice(kept, 1, call.top_k + 1)

MatchesGenre(index) == AnyGenre(Loc(index), call.genres[1])
MatchesActor(index) == AnyActor(Loc(index), call.actor[1])
MatchesCountry(index) == AnyCountry(Loc(index), call.country[1])

\* a genre filter and exactly one other filter are supplied
GenreAndActor == ~Absent(call.genres) /\ ~Absent(call.actor) /\ Absent(call.country)
GenreAndCountry == ~Absent(call.genres) /\ Absent(call.actor) /\ ~Absent(call.country)
AllThree == ~Absent(call.genres) /\ ~Absent(call.actor) /\ ~Absent(call.country)

\* C7 (as stated): with a genre filter and exactly one other filter, the
\* eligible items are those matching the genre filter OR the other filter.
C7_UnionEligible ==
    /\ (Returned /\ GenreAndActor) =>
            Top = SliceOf(SelectSeq(Sorted, LAMBDA index : MatchesGenre(index) \/ MatchesActor(index)))
    /\ (Returned /\ GenreAndCountry) =>
            Top = SliceOf(SelectSeq(Sorted, LAMBDA index : MatchesGenre(index) \/ MatchesCountry(index)))

\* C7 (amended): with a genre filter and exactly one other filter, the
\* eligible items are those matching the genre filter AND the other filter;
\* an item that matches only one of the two is never returned.
C7_IntersectionEligible ==
    /\ (Returned /\ GenreAndActor) =>
            Top = SliceOf(SelectSeq(Sorted, LAMBDA index : MatchesGenre(index) /\ MatchesActor(index)))
    /\ (Returned /\ GenreAndCountry) =>
            Top = SliceOf(SelectSeq(Sorted, LAMBDA index : MatchesGenre(index) /\ MatchesCountry(index)))

\* genre and actor filters are supplied, an item is returned, and an item
\* that is not the reference matches the genre filter only
C7_Witness ==
    /\ Returned
    /\ call.top_k >= 1
    /\ GenreAndActor
    /\ Top # <<>>
    /\ \E i \in 1..Len(movies) :
            /\ movies[i].id # RefId
            /\ MatchesGenre(movies[i].id)
            /\ ~MatchesActor(movies[i].id)

\* C8 (as stated): with all three filters supplied the contributor filter
\* has no effect: the result equals that of the call with actor = None.
C8_ActorIgnored ==
    (Returned /\ AllThree) =>
        Top = TopMoviesIndices(Sorted, call.top_k, call.genres, None, call.country)

\* C8 (amended): with all three filters supplied the eligible items are
\* those matching genre AND contributor AND country.
C8_AllThreeIntersect ==
    (Returned /\ AllThree) =>
        Top = SliceOf(SelectSeq(Sorted, LAMBDA index :
                  MatchesGenre(index) /\ MatchesActor(index) /\ MatchesCountry(index)))

\* all three filters are supplied, an item is returned, and some item
\* matches the genre and country filters but not the contributor filter
C8_Witness ==
    /\ Returned
    /\ call.top_k >= 1
    /\ AllThree
    /\ Top # <<>>
    /\ \E i \in 1..Len(movies) :
            /\ MatchesGenre(movies[i].id)
            /\ MatchesCountry(movies[i].id)
            /\ ~MatchesActor(movies[i].id)

\* the item has one of the requested names among its genre, cast or
\* production-country names
SharesGenre(index) ==
    \E n \in call.genres[1] : ListIn(n, Loc(index).genres)
SharesActor(index) ==
    \E n \in call.actor[1] : ListIn(n, EvalNames(Loc(index).cast))
SharesCountry(index) ==
    \E n \in call.country[1] : ListIn(n, EvalNames(Loc(index).production_countries))

\* C9: with exactly one filter supplied an item is eligible iff its set of
\* names for that dimension shares a whole element with the requested set;
\* a requested country that is only a substring of a name does not count.
C9_WholeElementMatch ==
    /\ (Returned /\ ~Absent(call.genres) /\ Absent(call.actor) /\ Absent(call.country))
            => Top = SliceOf(SelectSeq(Sorted, SharesGenre))
    /\ (Returned /\ Absent(call.genres) /\ ~Absent(call.actor) /\ Absent(call.country))
            => Top = SliceOf(SelectSeq(Sorted, SharesActor))
    /\ (Returned /\ Absent(call.genres) /\ Absent(call.actor) /\ ~Absent(call.country))
            => Top = SliceOf(SelectSeq(Sorted, SharesCountry))

\* C10: a filter that is None or empty imposes no constraint: with every
\* filter None or empty the result is that of the call without filters, and
\* with actor and country None or empty it is that of the call with the
\* genre filter alone.
C10_AbsentFilterNoConstraint ==
    /\ (Returned /\ Absent(call.genres) /\ Absent(call.actor) /\ Absent(call.country))
            => Top = TopMoviesIndices(Sorted, call.top_k, None, None, None)
    /\ (Returned /\ Absent(call.actor) /\ Absent(call.country))
            => Top = TopMoviesIndices(Sorted, call.top_k, call.genres, None, None)

\* a call with a genre filter, an empty actor filter and an empty country
\* filter returns an item
C10_Witness ==
    /\ Returned
    /\ call.top_k >= 1
    /\ ~Absent(call.genres)
    /\ call.actor = Some({})
    /\ call.country = Some({})
    /\ Top # <<>>

\* C16: every item recommendation returns satisfies every non-empty filter
\* that was supplied: it has a requested genre, a requested name in its cast
\* and a requested country name occurring in its production_countries text,
\* whatever candidate list the pre-filter selected.
C16_ResultMatchesEveryFilter ==
    Returned =>
        \A i \in 1..Len(Top) :
            /\ ~Absent(call.genres) => MatchesGenre(Top[i])
            /\ ~Absent(call.actor) => MatchesActor(Top[i])
            /\ ~Absent(call.country) => MatchesCountry(Top[i])

\* genre and country filters are supplied, an item is returned, and another
\* item that is not the reference matches the genre filter but not the
\* country filter (the pre-filter, a union, kept it)
C16_Witness ==
    /\ Returned
    /\ GenreAndCountry
    /\ call.top_k >= 1
    /\ Top # <<>>
    /\ \E i \in 1..Len(movies) :
            /\ movies[i].id # RefId
            /\ MatchesGenre(movies[i].id)
            /\ ~MatchesCountry(movies[i].id)
            /\ ListIn(movies[i].id,
                      FilteredMovies(call.genres, call.actor, call.country)[1])

\* parse was applied to the cell
Parsed == call.op = "parse"

\* the names a cell's records hold, when the cell is a list of records that
\* all have a name
NamedRecords ==
    column.type = "str"
    /\ column.value \in RecordTexts \cup IdRecordTexts

NamesWritten ==
    IF column.value \in RecordTexts
    THEN CHOOSE names \in NameLists : Serialize(names) = column.value
    ELSE <<CHOOSE name \in {Comedy, Action} : RecordWithId(name) = column.value>>

\* C12: parse of a serialized list of records returns the records' names in
\* order; parse of None or of any other input (unparsable text, a literal
\* that is not a list of records, a record without a name) returns the empty
\* list and does not raise.
C12_NamesOrEmptyNeverRaises ==
    Parsed =>
        /\ result.raised = None
        /\ result.value = Some(IF NamedRecords THEN NamesWritten ELSE <<>>)

\* the last two recommendation calls had the same arguments (and the sort,
\* which is a function of the row it is given, ordered the row the same way)
SameCall ==
    /\ Len(history) = 2
    /\ history[1].call = history[2].call
    /\ history[1].sorted = history[2].sorted

\* C11: no call (recommendation, get_title, get_genres, get_country,
\* get_all_actors, an accessor) changes the catalog or the similarity table,
\* and two recommendation calls with the same arguments return the same
\* list whatever was called between them.
C11_TablesNeverModified ==
    /\ [][movies' = movies /\ distance' = distance]_vars
    /\ [](SameCall => history[1].result = history[2].result)

\* the same recommendation was asked twice with another method called in
\* between, and it returned a non-empty list
C11_Witness ==
    /\ SameCall
    /\ history[2].between
    /\ history[2].call.genres # None
    /\ history[2].result.raised = None
    /\ history[2].result.value # Some(<<>>)

\* the rows of the catalog that have the title asked for
AccessedRows == {i \in 1..Len(movies) : movies[i].title = call.title}
AccessedRow == movies[CHOOSE i \in AccessedRows : \A j \in AccessedRows : i <= j]

\* C13: the accessors by title never raise; get_movie_url returns '' when
\* the homepage is null, get_original_title returns '' when the original
\* title is null or the title is not in the catalog, and get_overview
\* returns None when the synopsis is null or the title is not in the catalog.
C13_AccessorsReturnSentinel ==
    /\ call.op \in {"get_movie_url", "get_original_title", "get_overview"}
           => result.raised = None
    /\ (call.op = "get_movie_url" /\ AccessedRows # {}
            /\ AccessedRow.homepage = NaN)
           => result.value = Some(Str(<<>>))
    /\ (call.op = "get_original_title"
            /\ (AccessedRows = {} \/ AccessedRow.original_title = NaN))
           => result.value = Some(Str(<<>>))
    /\ (call.op = "get_overview"
            /\ (AccessedRows = {} \/ AccessedRow.overview = NaN))
           => result.value = Some(PyNone)

\* the lookup of the i-th title of the batch failed: a network error, a
\* status other than 200, a body that is not JSON, or no poster in it
LookupFailed(i) ==
    LET response == omdb.responses[i]
    IN  \/ response.raised # None
        \/ response.status_code # StatusOk
        \/ ~response.decodes
        \/ response.Poster \in {None, Some(<<>>)}

\* C14: get_posters never raises; it returns one URL per title in the order
\* of the titles, the placeholder for each title whose lookup failed and the
\* poster the service gave for every other title.
C14_OneUrlPerTitleNeverRaises ==
    call.op = "get_posters" =>
        /\ result.raised = None
        /\ result.value # None
        /\ Len(result.value[1]) = Len(omdb.titles)
        /\ \A i \in 1..Len(omdb.titles) :
               result.value[1][i] = IF LookupFailed(i) THEN Placeholder
                                    ELSE PosterUrl(omdb.titles[i])

\* the first render has happened
Rendered == selectbox.index # None

\* C15: after any sequence of renders and selections, last_index is the
\* dropdown index of the movie the user selected last and the selection
\* control is rendered with that index; first_load is True only before the
\* first render; when first_load is False, last_index is an index into the
\* title list.
C15_LastIndexFollowsSelection ==
    /\ session_state.first_load <=> ~Rendered
    /\ ~session_state.first_load =>
           /\ session_state.last_index # None
           /\ session_state.last_index[1] \in 0..(Len(movies) - 1)
           /\ session_state.last_index = selectbox.value
           /\ selectbox.index = session_state.last_index

====
